---- MODULE Spec2Model ----
(***************************************************************************)
(* The two title builders of Dynamic-TestFileName:                         *)
(*   variant "H"  fsw_file_namer_H.py  one section per line of the file    *)
(*   variant "V"  fsw_file_namer_V.py  one section per column of the CSV   *)
(* A string is a sequence of one-character strings, so that strip, split   *)
(* and concatenation are computed as Python computes them.  Indices that   *)
(* the program keeps (current_row_index, list positions) are 0-based as in *)
(* the source; +1 is added where a TLA+ sequence is indexed.               *)
(***************************************************************************)
EXTENDS Integers, Sequences, FiniteSets, TLC

VARIABLES
  variant,            \* "H" or "V": which of the two programs runs
  og_data,            \* V: the rows of the CSV as read (global og_data)
  lines,              \* H: the list `lines` in memory
  file,               \* H: the lines of the file on disk
  current_line,       \* H: number of lines the iterator current_line has yielded
  current_row_index,
  colstr1,            \* the label shown
  buttons,            \* the texts of the buttons shown, in order
  textbox,
  entered_text,       \* the accumulated title
  altbuttonFlag,
  saveFlag,           \* H only
  running,            \* the main loop runs (FALSE once root.quit() was called)
  locked,             \* H: the file cannot be opened for writing (open elsewhere)
  shown,              \* history: what is displayed (kind, column or line, parent row)
  seen,               \* history: the top-level sections displayed so far, in order
  accepted,           \* history: the non-empty tokens appended to the title, in order
  clicked,            \* history: a button was clicked since the last top-level section appeared
  ev                  \* history: the handler that ran last and the state it ran in

vars == <<variant, og_data, lines, file, current_line, current_row_index, colstr1,
          buttons, textbox, entered_text, altbuttonFlag, saveFlag, running, locked,
          shown, seen, accepted, clicked, ev>>

----------------------------------------------------------------------------
(* Bounds of the model *)

MaxCols == 3          \* V: the tables have at most this many columns
MaxLines == 2         \* H: the files have at most this many lines
MaxLineLen == 4       \* H: a save whose write fails is tried on lines up to this length

----------------------------------------------------------------------------
(* Strings *)

E == <<>>                                   \* ''
Seed == <<"T">>                             \* the value of get_time_PC()
connector == <<" ", "-", " ">>              \* ' - '
Underscore == <<"_">>                       \* the '_' of the f-string in H.on_enter
ValuesSuffix == <<" ", "v", "a", "l", "u", "e", "s">>
NoMoreLines == <<"N", "o", " ", "m", "o", "r", "e", " ", "l", "i", "n", "e", "s",
                 " ", "t", "o", " ", "r", "e", "a", "d", ".">>
StripChars == {",", "\n"}                   \* the argument of strip(',\n')

RECURSIVE LStrip(_, _)
LStrip(s, cs) == IF s # E /\ Head(s) \in cs THEN LStrip(Tail(s), cs) ELSE s

RECURSIVE RStrip(_, _)
RStrip(s, cs) ==
  IF s # E /\ s[Len(s)] \in cs THEN RStrip(SubSeq(s, 1, Len(s) - 1), cs) ELSE s

\* str.strip(chars): leading and trailing characters of the set are removed
Strip(s, cs) == RStrip(LStrip(s, cs), cs)

\* str.split(sep) for a one-character separator: '' gives ['']
RECURSIVE Split(_, _)
Split(s, sep) ==
  IF \A i \in 1..Len(s) : s[i] # sep
  THEN <<s>>
  ELSE LET i == CHOOSE k \in 1..Len(s) :
                  s[k] = sep /\ \A j \in 1..(k - 1) : s[j] # sep
       IN <<SubSeq(s, 1, i - 1)>> \o Split(SubSeq(s, i + 1, Len(s)), sep)

\* sep.join(parts) prefixed by sep at every part: the text that accepting the
\* tokens one after the other appends
RECURSIVE Joined(_, _)
Joined(tokens, sep) ==
  IF tokens = <<>> THEN E ELSE sep \o Head(tokens) \o Joined(Tail(tokens), sep)

IsPrefix(s, t) == Len(s) <= Len(t) /\ SubSeq(t, 1, Len(s)) = s

NonEmpty(ws) == SelectSeq(ws, LAMBDA w : w # E)

\* Python's seq[i:] for 0 <= i
From(s, i) == SubSeq(s, i + 1, Len(s))

\* list.index(x): the first 0-based position of x, or -1 for ValueError
IndexOf(s, x) ==
  IF \E k \in 1..Len(s) : s[k] = x
  THEN (CHOOSE k \in 1..Len(s) : s[k] = x /\ \A j \in 1..(k - 1) : s[j] # x) - 1
  ELSE -1

Min(S) == CHOOSE m \in S : \A n \in S : m <= n

----------------------------------------------------------------------------
(* The state the handlers work on, as one record *)

St == [og |-> og_data, lines |-> lines, file |-> file, it |-> current_line,
       cri |-> current_row_index, label |-> colstr1, buttons |-> buttons,
       textbox |-> textbox, title |-> entered_text, alt |-> altbuttonFlag,
       save |-> saveFlag, running |-> running, locked |-> locked,
       shown |-> shown, seen |-> seen, accepted |-> accepted, clicked |-> clicked]

Becomes(s) ==
  /\ og_data' = s.og
  /\ lines' = s.lines
  /\ file' = s.file
  /\ current_line' = s.it
  /\ current_row_index' = s.cri
  /\ colstr1' = s.label
  /\ buttons' = s.buttons
  /\ textbox' = s.textbox
  /\ entered_text' = s.title
  /\ altbuttonFlag' = s.alt
  /\ saveFlag' = s.save
  /\ running' = s.running
  /\ locked' = s.locked
  /\ shown' = s.shown
  /\ seen' = s.seen
  /\ accepted' = s.accepted
  /\ clicked' = s.clicked

Nothing == [kind |-> "none", col |-> -1, row |-> -1]
Top(c) == [kind |-> "top", col |-> c, row |-> -1]
Sub(c, r) == [kind |-> "sub", col |-> c, row |-> r]
Ended == [kind |-> "end", col |-> -1, row |-> -1]

----------------------------------------------------------------------------
(* Variant V: fsw_file_namer_V.py *)

\* zip(*data): as many columns as the shortest row has cells
transposed(data) ==
  IF data = <<>> THEN <<>>
  ELSE [c \in 1..Min({Len(data[r]) : r \in 1..Len(data)}) |->
          [r \in 1..Len(data) |-> data[r][c]]]

transposed_data == transposed(og_data)

create_word_buttons_V(words) == NonEmpty(words)

\* the while loop of update_buttons: the first index from i on whose row has a
\* non-empty first cell, or the length of the list (where the loop raises IndexError)
\* a walker that does not skip: the row under the cursor is taken as it is
SkipEmpty_NoSkip(T, i) == IF i >= Len(T) THEN Len(T) ELSE i

RECURSIVE SkipEmpty(_, _)
SkipEmpty(T, i) ==
  IF i >= Len(T) THEN Len(T)
  ELSE IF T[i + 1][1] = E THEN SkipEmpty(T, i + 1) ELSE i

\* a walker that takes the last column for the end of the table
update_buttons_V_Early(s) ==
  LET T == transposed(s.og) IN
  IF s.cri >= Len(T) - 1
  THEN [s EXCEPT !.running = FALSE, !.shown = Ended]
  ELSE LET k == SkipEmpty(T, s.cri) IN
       IF k >= Len(T)
       THEN [s EXCEPT !.buttons = <<>>, !.cri = k, !.running = FALSE,
                      !.shown = Ended]
       ELSE [s EXCEPT !.buttons = create_word_buttons_V(Tail(T[k + 1])),
                      !.label = T[k + 1][1],
                      !.cri = k + 1,
                      !.shown = Top(k),
                      !.seen = Append(s.seen, k),
                      !.clicked = FALSE]

update_buttons_V(s) ==
  LET T == transposed(s.og) IN
  IF s.cri >= Len(T)
  THEN [s EXCEPT !.running = FALSE, !.shown = Ended]
  ELSE LET k == SkipEmpty(T, s.cri) IN
       IF k >= Len(T)
       THEN [s EXCEPT !.buttons = <<>>, !.cri = k, !.running = FALSE,
                      !.shown = Ended]
       ELSE [s EXCEPT !.buttons = create_word_buttons_V(Tail(T[k + 1])),
                      !.label = T[k + 1][1],
                      !.cri = k + 1,
                      !.shown = Top(k),
                      !.seen = Append(s.seen, k),
                      !.clicked = FALSE]

\* an accumulator that puts the new token in front of the title
on_enter_V_Prepend(s) ==
  LET s1 == IF s.textbox # E
            THEN [s EXCEPT !.title = s.textbox \o connector \o s.title,
                           !.accepted = Append(s.accepted, s.textbox)]
            ELSE s
      s2 == update_buttons_V(s1)
  IN [s2 EXCEPT !.textbox = E]

on_enter_V(s) ==
  LET s1 == IF s.textbox # E
            THEN [s EXCEPT !.title = s.title \o connector \o s.textbox,
                           !.accepted = Append(s.accepted, s.textbox)]
            ELSE s
      s2 == update_buttons_V(s1)
  IN [s2 EXCEPT !.textbox = E]

handle_subsection(s, subsection_values, word) ==
  [s EXCEPT !.buttons = create_word_buttons_V(subsection_values),
            !.label = word \o ValuesSuffix]

\* the for loop of insert_word over og_data[word_index][current_row_index:]:
\* the cursor moves only while the header cell under it is empty
\* a scan that does not stop at a header: it collects every cell right of the cursor
RECURSIVE Scan_PastHeader(_, _, _, _)
Scan_PastHeader(header, vals, cri, acc) ==
  IF vals = <<>> THEN [cri |-> cri, values |-> acc, raised |-> FALSE]
  ELSE IF cri >= Len(header) THEN [cri |-> cri, values |-> acc, raised |-> TRUE]
  ELSE Scan_PastHeader(header, Tail(vals), cri + 1,
                       IF Head(vals) # E THEN Append(acc, Head(vals)) ELSE acc)

\* a scan that forgets to move the cursor
RECURSIVE Scan_NoAdvance(_, _, _, _)
Scan_NoAdvance(header, vals, cri, acc) ==
  IF vals = <<>> THEN [cri |-> cri, values |-> acc, raised |-> FALSE]
  ELSE IF cri >= Len(header) THEN [cri |-> cri, values |-> acc, raised |-> TRUE]
  ELSE IF header[cri + 1] = E
       THEN Scan_NoAdvance(header, Tail(vals), cri,
                           IF Head(vals) # E THEN Append(acc, Head(vals)) ELSE acc)
       ELSE Scan_NoAdvance(header, Tail(vals), cri, acc)

RECURSIVE Scan(_, _, _, _)
Scan(header, vals, cri, acc) ==
  IF vals = <<>> THEN [cri |-> cri, values |-> acc, raised |-> FALSE]
  ELSE IF cri >= Len(header) THEN [cri |-> cri, values |-> acc, raised |-> TRUE]
  ELSE IF header[cri + 1] = E
       THEN Scan(header, Tail(vals), cri + 1,
                 IF Head(vals) # E THEN Append(acc, Head(vals)) ELSE acc)
       ELSE Scan(header, Tail(vals), cri, acc)

\* a click that opens a subsection and appends the parent option to the title too
insert_word_V_Both(s, word) ==
  LET T == transposed(s.og)
      s0 == [s EXCEPT !.textbox = E, !.clicked = TRUE]
      plain(t) == LET t1 == [t EXCEPT !.textbox = word]
                  IN IF t1.alt THEN on_enter_V(t1) ELSE t1
  IN
  IF s.cri < Len(T) /\ T[s.cri + 1][1] = E
  THEN LET word_index == IndexOf(T[s.cri], word) IN
       IF word_index < 0 THEN s0
       ELSE LET sc == Scan(s.og[1], From(s.og[word_index + 1], s.cri), s.cri, <<>>)
                s1 == [s0 EXCEPT !.cri = sc.cri]
            IN IF sc.raised THEN s1
               ELSE IF sc.values # <<>>
                    THEN [handle_subsection(s1, sc.values, word)
                            EXCEPT !.shown = Sub(s.cri - 1, word_index),
                                   !.title = s.title \o connector \o word,
                                   !.accepted = Append(s.accepted, word)]
                    ELSE plain(s1)
  ELSE plain(s0)

insert_word_V(s, word) ==
  LET T == transposed(s.og)
      s0 == [s EXCEPT !.textbox = E, !.clicked = TRUE]
      plain(t) == LET t1 == [t EXCEPT !.textbox = word]
                  IN IF t1.alt THEN on_enter_V(t1) ELSE t1
  IN
  IF s.cri < Len(T) /\ T[s.cri + 1][1] = E
  THEN LET word_index == IndexOf(T[s.cri], word) IN
       IF word_index < 0 THEN s0                        \* ValueError
       ELSE LET sc == Scan(s.og[1], From(s.og[word_index + 1], s.cri), s.cri, <<>>)
                s1 == [s0 EXCEPT !.cri = sc.cri]
            IN IF sc.raised THEN s1                     \* IndexError
               ELSE IF sc.values # <<>>
                    THEN [handle_subsection(s1, sc.values, word)
                            EXCEPT !.shown = Sub(s.cri - 1, word_index)]
                    ELSE plain(s1)
  ELSE plain(s0)

run_file_reader_V(data) ==
  LET T == transposed(data)
      base == [og |-> data, lines |-> <<>>, file |-> <<>>, it |-> 0, cri |-> 1,
               label |-> NoMoreLines, buttons |-> <<>>, textbox |-> E,
               title |-> Seed, alt |-> TRUE, save |-> FALSE, running |-> TRUE,
               locked |-> FALSE, shown |-> Nothing, seen |-> <<>>,
               accepted |-> <<>>, clicked |-> FALSE]
  IN IF T = <<>> THEN base
     ELSE [base EXCEPT !.label = T[1][1],
                       !.buttons = create_word_buttons_V(Tail(T[1])),
                       !.shown = Top(0),
                       !.seen = <<0>>]

----------------------------------------------------------------------------
(* Variant H: fsw_file_namer_H.py *)

\* next(current_line).strip(',\n').split(',')
words_of(line) == Split(Strip(line, StripChars), ",")

create_word_buttons_H(words) == words

\* a walker that stops one line early
update_buttons_H_Early(s) ==
  IF s.it + 1 < Len(s.lines)
  THEN LET words == words_of(s.lines[s.it + 1]) IN
       [s EXCEPT !.it = s.it + 1,
                 !.label = words[1],
                 !.buttons = create_word_buttons_H(Tail(words)),
                 !.cri = s.cri + 1,
                 !.shown = Top(s.it),
                 !.seen = Append(s.seen, s.it),
                 !.clicked = FALSE]
  ELSE [s EXCEPT !.running = FALSE, !.shown = Ended]

update_buttons_H(s) ==
  IF s.it < Len(s.lines)
  THEN LET words == words_of(s.lines[s.it + 1]) IN
       [s EXCEPT !.it = s.it + 1,
                 !.label = words[1],
                 !.buttons = create_word_buttons_H(Tail(words)),
                 !.cri = s.cri + 1,
                 !.shown = Top(s.it),
                 !.seen = Append(s.seen, s.it),
                 !.clicked = FALSE]
  ELSE [s EXCEPT !.running = FALSE, !.shown = Ended]          \* StopIteration

\* the state after save_word, and whether it raised (IndexError of
\* lines[current_row_index], or the error of open(file_name, 'w'))
save_word(s, word) ==
  IF s.cri >= Len(s.lines)
  THEN [s |-> s, raised |-> TRUE]
  ELSE LET s1 == [s EXCEPT !.lines[s.cri + 1] =
                     Strip(@, StripChars) \o <<",">> \o word \o <<"\n">>]
       IN IF s.locked
          THEN [s |-> s1, raised |-> TRUE]
          ELSE [s |-> [s1 EXCEPT !.file = s1.lines], raised |-> FALSE]

on_enter_H(s) ==
  LET sv == IF s.save THEN save_word(s, s.textbox) ELSE [s |-> s, raised |-> FALSE]
  IN IF sv.raised THEN sv.s
     ELSE LET s1 == [sv.s EXCEPT !.save = FALSE]
              s2 == IF s1.textbox # E
                    THEN [s1 EXCEPT !.title = s1.title \o Underscore \o s1.textbox,
                                    !.accepted = Append(s1.accepted, s1.textbox)]
                    ELSE s1
              s3 == update_buttons_H(s2)
          IN [s3 EXCEPT !.textbox = E]

insert_word_H(s, word) ==
  LET s1 == [s EXCEPT !.textbox = word, !.clicked = TRUE]
  IN IF s1.alt THEN on_enter_H(s1) ELSE s1

\* file.readlines(): the lines of the file, each with its line end
read_file(f) == f

run_file_reader_H(f) ==
  LET ls == read_file(f)
      base == [og |-> <<>>, lines |-> ls, file |-> f, it |-> 0, cri |-> 0,
               label |-> NoMoreLines, buttons |-> <<>>, textbox |-> E,
               title |-> Seed, alt |-> TRUE, save |-> FALSE, running |-> TRUE,
               locked |-> FALSE, shown |-> Nothing, seen |-> <<>>,
               accepted |-> <<>>, clicked |-> FALSE]
  IN IF ls = <<>> THEN base
     ELSE LET first_words == words_of(ls[1]) IN
          [base EXCEPT !.it = 1,
                       !.label = first_words[1],
                       !.buttons = create_word_buttons_H(Tail(first_words)),
                       !.shown = Top(0),
                       !.seen = <<0>>]

----------------------------------------------------------------------------
(* Inputs *)

ColNames == <<"1", "2", "3", "4", "5", "6">>
Cell(ch, c) == <<ch, ColNames[c]>>

\* V: rectangular tables of a header row and two data rows.  A header cell is
\* empty or a name; an option of the first data row is empty or "x<c>"; an option
\* of the second is empty or "y<c>" or, in the first column, a repetition of
\* "x<c>".  And the empty file.
TablesV ==
  {<<>>} \cup
  UNION { { << [c \in 1..n |-> IF h[c] THEN Cell("h", c) ELSE E],
               [c \in 1..n |-> IF a[c] THEN Cell("x", c) ELSE E],
               [c \in 1..n |-> IF b[c] = "" THEN E ELSE Cell(b[c], c)] >> :
              h \in [1..n -> BOOLEAN], a \in [1..n -> BOOLEAN],
              b \in { f \in [1..n -> {"", "x", "y"}] :
                         \A c \in 1..n : f[c] = "x" => c = 1 } } : n \in 1..MaxCols }

\* V: tables whose rows differ in length: a header row and two data rows of
\* 0..MaxCols cells, each row a rectangular table's row cut
\* to its length (a blank line of the file is a row of no cells)
RaggedTablesV ==
  LET full == { << [k \in 1..MaxCols |-> IF h[k] THEN Cell("h", k) ELSE E],
                   [k \in 1..MaxCols |-> IF x[k] THEN Cell("x", k) ELSE E],
                   [k \in 1..MaxCols |-> IF y[k] THEN Cell("y", k) ELSE E] >> :
                  h \in [1..MaxCols -> BOOLEAN], x \in [1..MaxCols -> BOOLEAN],
                  y \in [1..MaxCols -> BOOLEAN] }
      cuts == { l \in (0..MaxCols) \X (0..MaxCols) \X (0..MaxCols) :
                  l[2] # l[1] \/ l[3] # l[1] }
  IN { <<SubSeq(t[1], 1, l[1]), SubSeq(t[2], 1, l[2]), SubSeq(t[3], 1, l[3])>> :
         t \in full, l \in cuts }

\* H: the text of a line before its line end
LineTexts ==
  { E, <<"a">>, <<"a", ",", "b">>, <<",", "a">>, <<"a", ",">>, <<",">>,
    <<"a", ",", ",", "b">> }

RECURSIVE SeqsUpTo(_, _)
SeqsUpTo(S, n) ==
  IF n = 0 THEN {<<>>}
  ELSE LET R == SeqsUpTo(S, n - 1) IN
       R \cup {Append(r, x) : r \in {q \in R : Len(q) = n - 1}, x \in S}

\* H: files of at most MaxLines lines; the last line, unless it is empty, may
\* lack its line end
FilesH ==
  LET bodies == SeqsUpTo(LineTexts, MaxLines) IN
  { [i \in 1..Len(b) |-> b[i] \o <<"\n">>] : b \in bodies } \cup
  { [i \in 1..Len(b) |-> IF i = Len(b) THEN b[i] ELSE b[i] \o <<"\n">>] :
      b \in {q \in bodies : q # <<>> /\ q[Len(q)] # E} }

\* what the user types into the text box
TypedWords == {E, <<"w">>}

----------------------------------------------------------------------------
(* The session *)

Started(s) == [op |-> "init", word |-> E, idx |-> 0, pre |-> s]

InitV ==
  /\ variant = "V"
  /\ \E data \in TablesV :
       LET s == run_file_reader_V(data) IN
       /\ og_data = s.og /\ lines = s.lines /\ file = s.file
       /\ current_line = s.it /\ current_row_index = s.cri /\ colstr1 = s.label
       /\ buttons = s.buttons /\ textbox = s.textbox /\ entered_text = s.title
       /\ altbuttonFlag = s.alt /\ saveFlag = s.save /\ running = s.running
       /\ locked = s.locked /\ shown = s.shown /\ seen = s.seen
       /\ accepted = s.accepted /\ clicked = s.clicked /\ ev = Started(s)

InitH ==
  /\ variant = "H"
  /\ \E f \in FilesH :
       LET s == run_file_reader_H(f) IN
       /\ og_data = s.og /\ lines = s.lines /\ file = s.file
       /\ current_line = s.it /\ current_row_index = s.cri /\ colstr1 = s.label
       /\ buttons = s.buttons /\ textbox = s.textbox /\ entered_text = s.title
       /\ altbuttonFlag = s.alt /\ saveFlag = s.save /\ running = s.running
       /\ locked = s.locked /\ shown = s.shown /\ seen = s.seen
       /\ accepted = s.accepted /\ clicked = s.clicked /\ ev = Started(s)

InitRagged ==
  /\ variant = "V"
  /\ \E data \in RaggedTablesV :
       LET s == run_file_reader_V(data) IN
       /\ og_data = s.og /\ lines = s.lines /\ file = s.file
       /\ current_line = s.it /\ current_row_index = s.cri /\ colstr1 = s.label
       /\ buttons = s.buttons /\ textbox = s.textbox /\ entered_text = s.title
       /\ altbuttonFlag = s.alt /\ saveFlag = s.save /\ running = s.running
       /\ locked = s.locked /\ shown = s.shown /\ seen = s.seen
       /\ accepted = s.accepted /\ clicked = s.clicked /\ ev = Started(s)

Init == InitH \/ InitV

\* a handler ran: the state becomes s, and ev records the handler and the state
\* it ran in
Handled(op, word, idx, s) ==
  /\ Becomes(s)
  /\ ev' = [op |-> op, word |-> word, idx |-> idx, pre |-> St]
  /\ UNCHANGED variant

\* an edit between two handlers: ev records no handler
Edited(s) ==
  /\ Becomes(s)
  /\ ev' = [op |-> "edit", word |-> E, idx |-> 0, pre |-> s]
  /\ UNCHANGED variant

\* a save whose write fails makes the line in memory longer every time: the
\* model follows such saves while the line is at most MaxLineLen long
SaveBounded ==
  (saveFlag /\ locked /\ current_row_index < Len(lines))
    => Len(lines[current_row_index + 1]) <= MaxLineLen

\* a button is clicked: command=lambda w=word: insert_word(w)
ClickV(i) ==
  /\ variant = "V" /\ running
  /\ i \in 1..Len(buttons)
  /\ Handled("click", buttons[i], i, insert_word_V(St, buttons[i]))

ClickH(i) ==
  /\ variant = "H" /\ running
  /\ i \in 1..Len(buttons)
  /\ SaveBounded
  /\ Handled("click", buttons[i], i, insert_word_H(St, buttons[i]))

\* <Return>
SubmitV ==
  /\ variant = "V" /\ running
  /\ Handled("submit", textbox, 0, on_enter_V(St))

SubmitH ==
  /\ variant = "H" /\ running
  /\ SaveBounded
  /\ Handled("submit", textbox, 0, on_enter_H(St))

\* the user replaces the content of the text box
TypeText(w) ==
  /\ running
  /\ w # textbox
  /\ Edited([St EXCEPT !.textbox = w])

\* the "Alt Button" check button of the menu
ToggleAlt ==
  /\ running
  /\ Edited([St EXCEPT !.alt = ~altbuttonFlag])

\* the "Save Word?" check button
ToggleSave ==
  /\ variant = "H" /\ running
  /\ Edited([St EXCEPT !.save = ~saveFlag])

\* another program opens the file, or closes it.  Whether the file is open
\* elsewhere matters only to a save, so it is opened while a save is pending.
LockFile ==
  /\ variant = "H" /\ running /\ ~locked /\ saveFlag
  /\ Edited([St EXCEPT !.locked = TRUE])

UnlockFile ==
  /\ variant = "H" /\ running /\ locked
  /\ Edited([St EXCEPT !.locked = FALSE])

NextV ==
  \/ \E i \in 1..Len(buttons) : ClickV(i)
  \/ SubmitV
  \/ \E w \in TypedWords : variant = "V" /\ TypeText(w)
  \/ variant = "V" /\ ToggleAlt

NextH ==
  \/ \E i \in 1..Len(buttons) : ClickH(i)
  \/ SubmitH
  \/ \E w \in TypedWords : variant = "H" /\ TypeText(w)
  \/ variant = "H" /\ ToggleAlt
  \/ ToggleSave

Next == NextH \/ NextV

\* both programs, the file of H writable throughout
Spec == Init /\ [][Next]_vars
\* each program alone
SpecH == InitH /\ [][NextH]_vars
SpecV == InitV /\ [][NextV]_vars
\* V on tables whose rows differ in length
SpecRagged == InitRagged /\ [][NextV]_vars
\* H with a file that other programs open and close
SpecLock == InitH /\ [][NextH \/ LockFile \/ UnlockFile]_vars

----------------------------------------------------------------------------
(* What the claims speak of, computed from the table or the file alone *)

NCols == IF og_data = <<>> THEN 0 ELSE Len(og_data[1])

\* column c (0-based) has a header
Headed(c) == og_data[1][c + 1] # E

\* the headed columns, left to right
HeadedCols ==
  LET F[c \in 0..NCols] ==
        IF c = NCols THEN <<>>
        ELSE IF Headed(c) THEN <<c>> \o F[c + 1] ELSE F[c + 1]
  IN F[0]

\* the first headed column right of c, or NCols when there is none
NextHeaded(c) ==
  IF \E k \in (c + 1)..(NCols - 1) : Headed(k)
  THEN Min({k \in (c + 1)..(NCols - 1) : Headed(k)})
  ELSE NCols

\* the non-empty cells of row r (0-based) in the run of empty-header columns
\* immediately right of column c, in column order
Children(r, c) ==
  NonEmpty([k \in 1..(NextHeaded(c) - c - 1) |-> og_data[r + 1][c + k + 1]])

\* the row (0-based) of the i-th button of column c: its i-th non-empty option
RowOfButton(c, i) ==
  LET rows == {r \in 1..(Len(og_data) - 1) : og_data[r + 1][c + 1] # E}
  IN CHOOSE r \in rows : Cardinality({q \in rows : q <= r}) = i

\* the options of column c are pairwise distinct and differ from its label
DistinctOptions(c) ==
  \A r, q \in 0..(Len(og_data) - 1) :
    (r # q /\ og_data[r + 1][c + 1] # E) => og_data[r + 1][c + 1] # og_data[q + 1][c + 1]

\* the section after the displayed one was loaded, or the session ended because
\* there is none
Advanced(next, last) ==
  IF next < last
  THEN running /\ shown = Top(next) /\ seen = Append(ev.pre.seen, next)
  ELSE ~running /\ seen = ev.pre.seen

\* the last handler was a click on a button of a headed top-level section of V
\* that no click had touched yet
FirstClickV ==
  /\ variant = "V" /\ ev.op = "click"
  /\ ev.pre.shown.kind = "top" /\ Headed(ev.pre.shown.col)
  /\ DistinctOptions(ev.pre.shown.col)
  /\ ~ev.pre.clicked

----------------------------------------------------------------------------
(* C1 *)

\* C1: V, rectangular table, distinct options: the first click on an option in
\* row r of a headed section (a) with children in the run of empty-header columns
\* right of the section leaves the title unchanged and shows exactly the children,
\* in column order, under the label "<token> values", and a click on a child
\* puts the child in the text box and, alt mode on, appends the child to the
\* title; (b) without children appends the option itself (alt mode on) and loads
\* the next section.
C1_FirstClick ==
  /\ FirstClickV =>
       LET c == ev.pre.shown.col
           r == RowOfButton(c, ev.idx)
           kids == Children(r, c)
       IN /\ ev.word = og_data[r + 1][c + 1]
          /\ kids # <<>> =>
               /\ entered_text = ev.pre.title
               /\ buttons = kids
               /\ colstr1 = ev.word \o ValuesSuffix
               /\ shown = Sub(c, r)
               /\ running
          /\ (kids = <<>> /\ ev.pre.alt) =>
               /\ entered_text = ev.pre.title \o connector \o ev.word
               /\ Advanced(NextHeaded(c), NCols)
  /\ (variant = "V" /\ ev.op = "click" /\ ev.pre.shown.kind = "sub") =>
       /\ ev.word \in {ev.pre.buttons[i] : i \in 1..Len(ev.pre.buttons)}
       /\ IF ev.pre.alt
          THEN /\ entered_text = ev.pre.title \o connector \o ev.word
               /\ Advanced(NextHeaded(ev.pre.shown.col), NCols)
          ELSE /\ textbox = ev.word
               /\ entered_text = ev.pre.title
               /\ shown = ev.pre.shown

\* a child of a two-children subsection was chosen for the first section, and
\* then an option without children was clicked in the next one
C1_Witness ==
  /\ FirstClickV
  /\ Children(RowOfButton(ev.pre.shown.col, ev.idx), ev.pre.shown.col) = <<>>
  /\ NCols = 3
  /\ Headed(0) /\ ~Headed(1)
  /\ ev.pre.shown.col = 2
  /\ seen = <<0, 2>>
  /\ accepted = <<og_data[2][2], og_data[2][3]>>
  /\ ev.pre.alt

----------------------------------------------------------------------------
(* C2 *)

\* C2: V, every table: the section shown as a top-level section is never a
\* column whose header is empty, and the cells of an empty-header column are
\* buttons only in a subsection opened from an option of the nearest headed
\* column to their left.
C2_NoAnonymousTopLevel ==
  variant = "V" =>
    /\ shown.kind = "top" => Headed(shown.col)
    /\ shown.kind = "sub" =>
         /\ Headed(shown.col)
         /\ buttons = Children(shown.row, shown.col)

----------------------------------------------------------------------------
(* C3 *)

Last(s) == s[Len(s)]

\* C3: V, rectangular table with a headed first column: the top-level sections
\* displayed are the headed columns in left-to-right order, each once, all of
\* them when the session has ended; each Submit moves from the displayed headed
\* column to the next headed column, or ends the session when none remains; a
\* click does the same or leaves the section displayed.
C3_HeadedInOrder ==
  (variant = "V" /\ NCols > 0 /\ Headed(0)) =>
    /\ Len(seen) >= 1
    /\ Len(seen) <= Len(HeadedCols)
    /\ seen = SubSeq(HeadedCols, 1, Len(seen))
    /\ ~running => seen = HeadedCols
    /\ running => (shown.kind \in {"top", "sub"} /\ shown.col = Last(seen))
    /\ ev.op = "submit" => Advanced(NextHeaded(Last(ev.pre.seen)), NCols)
    /\ ev.op = "click" =>
         \/ running /\ seen = ev.pre.seen
         \/ Advanced(NextHeaded(Last(ev.pre.seen)), NCols)

\* a Submit on the last of two headed columns, with an empty-header column
\* between them, ended the session
C3_Witness ==
  /\ variant = "V" /\ NCols = 3
  /\ Headed(0) /\ ~Headed(1) /\ Headed(2)
  /\ ev.op = "submit"
  /\ ~running
  /\ seen = <<0, 2>>

----------------------------------------------------------------------------
(* C4 *)

\* C4: H, a file of N >= 1 lines: the lines are presented in file order, each
\* once, line 0 from the start; every Submit (Enter, or a click in alt mode)
\* presents the next line, and the Submit made while the last line is displayed
\* ends the session.
C4_RowsInOrder ==
  (variant = "H" /\ Len(lines) >= 1) =>
    /\ Len(seen) >= 1
    /\ Len(seen) <= Len(lines)
    /\ seen = [i \in 1..Len(seen) |-> i - 1]
    /\ running => shown = Top(Len(seen) - 1)
    /\ ~running => Len(seen) = Len(lines)
    /\ ev.op = "init" => seen = <<0>>
    /\ (ev.op = "submit" \/ (ev.op = "click" /\ ev.pre.alt)) =>
         Advanced(Len(ev.pre.seen), Len(lines))
    /\ (ev.op = "click" /\ ~ev.pre.alt) => (running /\ seen = ev.pre.seen)

\* the second Submit of a session on a file of two lines ended it
C4_Witness ==
  /\ variant = "H" /\ Len(lines) = 2
  /\ ev.op = "submit"
  /\ ~running
  /\ seen = <<0, 1>>
  /\ ev.pre.seen = <<0, 1>>

----------------------------------------------------------------------------
(* C5 *)

Separator == IF variant = "H" THEN Underscore ELSE connector

\* C5: both variants: the title is the seed followed by separator+token for
\* every non-empty token accepted so far, in the order of acceptance; a handler
\* leaves the title as it was or extends it at its end, a Submit by the
\* separator and the content of the text box.
C5_TitleIsSeedPlusTokens ==
  /\ entered_text = Seed \o Joined(accepted, Separator)
  /\ \A i \in 1..Len(accepted) : accepted[i] # E
  /\ IsPrefix(ev.pre.title, entered_text)
  /\ IsPrefix(ev.pre.accepted, accepted)
  /\ ev.op = "submit" =>
       \/ entered_text = ev.pre.title /\ accepted = ev.pre.accepted
       \/ /\ ev.word # E
          /\ entered_text = ev.pre.title \o Separator \o ev.word
          /\ accepted = Append(ev.pre.accepted, ev.word)

\* H, two lines "a,b": the option b was accepted twice
C5_Witness ==
  /\ variant = "H"
  /\ ~running
  /\ entered_text = <<"T", "_", "b", "_", "b">>

----------------------------------------------------------------------------
(* C6 *)

\* C6: both variants: a Submit with an empty text box leaves the title as it
\* was, and the section displayed is consumed: the next one is loaded, or the
\* session ends when there is none; also when the save flag is set and the
\* file cannot be written.
C6_EmptySubmitSkips ==
  (ev.op = "submit" /\ ev.word = E) =>
    /\ entered_text = ev.pre.title
    /\ accepted = ev.pre.accepted
    /\ ev.pre.shown.kind \in {"top", "sub"} =>
         IF variant = "V"
         THEN Advanced(NextHeaded(ev.pre.shown.col), NCols)
         ELSE Advanced(ev.pre.shown.col + 1, Len(lines))

----------------------------------------------------------------------------
(* C7 *)

\* the comma-separated cells of a line of the file
Cells(line) == Split(RStrip(line, {"\n"}), ",")

\* the last handler saved a word (the save flag was set and has been cleared)
Saved ==
  /\ variant = "H" /\ ev.op \in {"submit", "click"}
  /\ ev.pre.save /\ ~saveFlag

\* the round trip, the cells of a row being what a split at the commas gives
RoundTripCells ==
  /\ Len(file) = Len(ev.pre.file)
  /\ \A i \in 1..Len(ev.pre.file) :
       Cells(file[i]) = IF i = ev.pre.cri + 1
                        THEN Append(Cells(ev.pre.file[i]), ev.word)
                        ELSE Cells(ev.pre.file[i])

\* the round trip, the cells of a row being what the program reads from it
RoundTripWords ==
  /\ Len(file) = Len(ev.pre.file)
  /\ \A i \in 1..Len(ev.pre.file) :
       words_of(file[i]) = IF i = ev.pre.cri + 1
                           THEN Append(words_of(ev.pre.file[i]), ev.word)
                           ELSE words_of(ev.pre.file[i])

\* C7: H: after a Submit that saves a non-empty word, the file holds the same rows in the
\* same order, every other row cell for cell as before, and the saved row is its
\* former cells followed by the word; the cells of a row being what a split at
\* the commas gives, or else what the program itself reads from the row.
C7_RoundTrip == (Saved /\ ev.word # E) => (RoundTripCells \/ RoundTripWords)

----------------------------------------------------------------------------
(* C8 *)

\* C8: H: whenever a Submit is possible the save targets an existing row, the
\* one whose label is displayed; a Submit that saves changes that row of the
\* file and no other.
C8_SaveTargetsDisplayedRow ==
  (variant = "H" /\ running) =>
    /\ current_row_index < Len(lines)
    /\ shown.kind = "top" => current_row_index = shown.col
    /\ Saved => \A i \in 1..Len(file) :
                  (file[i] # ev.pre.file[i]) => i = ev.pre.shown.col + 1

----------------------------------------------------------------------------
(* C9 *)

\* the button clicked last had no sub-options (in V: a child of a subsection, or
\* an option of a headed section with distinct options whose row has no children)
ClickedPlain ==
  /\ ev.op = "click"
  /\ variant = "V" =>
       \/ ev.pre.shown.kind = "sub"
       \/ /\ ev.pre.shown.kind = "top"
          /\ Headed(ev.pre.shown.col)
          /\ DistinctOptions(ev.pre.shown.col)
          /\ Children(RowOfButton(ev.pre.shown.col, ev.idx), ev.pre.shown.col) = <<>>

Entered(s) == IF variant = "V" THEN on_enter_V(s) ELSE on_enter_H(s)

\* C9: both variants: a click on an option without sub-options, alt mode on,
\* has the effect of putting the option in the text box and pressing Enter; alt
\* mode off, it only fills the text box: the title, the section displayed and
\* the cursor stay as they were.
C9_AltSwitch ==
  ClickedPlain =>
    IF ev.pre.alt
    THEN LET e == Entered([ev.pre EXCEPT !.textbox = ev.word]) IN
         /\ entered_text = e.title
         /\ running = e.running
         /\ textbox = e.textbox
         /\ running => (colstr1 = e.label /\ buttons = e.buttons
                        /\ current_row_index = e.cri)
    ELSE /\ textbox = ev.word
         /\ entered_text = ev.pre.title
         /\ colstr1 = ev.pre.label
         /\ buttons = ev.pre.buttons
         /\ current_row_index = ev.pre.cri
         /\ running

----------------------------------------------------------------------------
(* C10 *)

\* C10: H: a Submit whose save cannot write the file still appends the typed
\* token to the title and loads the next section (or ends the session after
\* the last one).
C10_FailedSaveStillSubmits ==
  (variant = "H" /\ ev.op = "submit" /\ ev.pre.save /\ ev.pre.locked
     /\ ev.pre.cri < Len(ev.pre.lines)) =>
    /\ entered_text = IF ev.word # E THEN ev.pre.title \o Underscore \o ev.word
                      ELSE ev.pre.title
    /\ Advanced(ev.pre.shown.col + 1, Len(lines))

----------------------------------------------------------------------------
(* C11 *)

\* the number of sections presented that the session has moved past
Passed(s) ==
  Len(s.seen) - (IF s.running /\ s.shown.kind \in {"top", "sub"} THEN 1 ELSE 0)

\* C11 as stated: both variants: once a section has been presented, the title
\* is the seed followed by exactly as many separator-joined tokens as sections
\* the session has moved past.
C11_OneTokenPerSection ==
  Len(seen) >= 1 =>
    /\ entered_text = Seed \o Joined(accepted, Separator)
    /\ Len(accepted) = Passed(St)

\* C11 (amended): both variants: the title is the seed followed by the accepted
\* tokens, at most one per section moved past; a handler moves past at most
\* one section, and while a section is displayed a token is added only by a
\* handler that moves past it: exactly one token (the child chosen in a
\* subsection, not its parent option too) when the text submitted is not
\* empty, none when it is empty; every Submit moves past the section displayed.
C11_TokensPerSection ==
  LET moved == Passed(St) - Passed(ev.pre)
      added == Len(accepted) - Len(ev.pre.accepted)
  IN /\ entered_text = Seed \o Joined(accepted, Separator)
     /\ Len(seen) >= 1 => Len(accepted) <= Passed(St)
     /\ moved \in {0, 1}
     /\ ev.pre.shown.kind \in {"top", "sub"} =>
          /\ moved = 0 => added = 0
          /\ moved = 1 => IF ev.word # E
                          THEN accepted = Append(ev.pre.accepted, ev.word)
                          ELSE added = 0
          /\ ev.op = "submit" => moved = 1

\* V: the first section was skipped by an empty Submit, and in the second one an
\* option was expanded and one of its children chosen: two sections passed, the
\* child the only token
C11_Witness ==
  /\ variant = "V" /\ ev.op = "click"
  /\ NCols = 3 /\ Headed(0) /\ Headed(1) /\ ~Headed(2)
  /\ ev.pre.shown = Sub(1, 1)
  /\ Passed(St) = 2
  /\ accepted = <<ev.word>>
  /\ ev.word # og_data[ev.pre.shown.row + 1][ev.pre.shown.col + 1]

----------------------------------------------------------------------------
(* C12 *)

\* C12 as stated: both variants: no handler decreases current_row_index; in V
\* it never exceeds the number of columns of the table; the session has ended
\* only with current_row_index past the index of the last section.
C12_CursorBounded ==
  /\ current_row_index >= ev.pre.cri
  /\ variant = "V" => current_row_index <= NCols
  /\ ~running =>
       current_row_index >= (IF variant = "V" THEN NCols ELSE Len(lines))

\* C12 (amended): both variants: no click, Submit or toggle decreases
\* current_row_index; in V with a transposed table that is not empty it never
\* exceeds the number of cells of the header row, and with an empty one it
\* stays 1; the session ends only by a Submit (Enter
\* or a click) that finds no further section: in V current_row_index is then
\* at or past the number of columns, in H the iterator over the lines is
\* exhausted and current_row_index, which is not incremented at the start, is
\* the index of the last line (0 for the empty file).
C12_CursorMonotone ==
  /\ current_row_index >= ev.pre.cri
  /\ (variant = "V" /\ transposed_data # <<>>) => current_row_index <= NCols
  /\ (variant = "V" /\ transposed_data = <<>>) => current_row_index = 1
  /\ ~running =>
       /\ ev.op \in {"submit", "click"}
       /\ ev.pre.running
       /\ IF variant = "V"
          THEN current_row_index >= Len(transposed_data)
          ELSE /\ current_line = Len(lines)
               /\ current_row_index = IF lines = <<>> THEN 0 ELSE Len(lines) - 1

\* V: a click opened a subsection, which moved the cursor over the empty-header
\* column; alt mode was switched off and a Submit ended the session, the cursor
\* staying at the number of columns
C12_Witness ==
  /\ variant = "V" /\ NCols = 3 /\ Headed(0) /\ Headed(1) /\ ~Headed(2)
  /\ ev.op = "submit"
  /\ ~running
  /\ ev.pre.cri = 3 /\ current_row_index = 3
  /\ ev.pre.shown.kind = "sub"
  /\ ~ev.pre.alt

----------------------------------------------------------------------------
(* C13 *)

\* no section follows the one displayed in state s (none is displayed when the
\* table is empty)
NoFurtherSection(s) ==
  s.shown.kind \in {"top", "sub"} =>
    IF variant = "V" THEN NextHeaded(s.shown.col) = NCols
                     ELSE s.shown.col + 1 = Len(s.lines)

\* C13: both variants: the session is DONE exactly when a Submit has found no
\* further section: such a Submit ends the main loop, and the main loop has
\* ended only by such a Submit (Enter, or a click that submits); the title
\* that run_file_reader then returns is the title before that Submit followed
\* by the token it accepted.  After the main loop has ended no handler runs.
C13_DoneOnLastSubmit ==
  /\ (ev.op = "submit" /\ NoFurtherSection(ev.pre)) => ~running
  /\ ~running =>
       /\ ev.op \in {"submit", "click"}
       /\ ev.op = "click" => ev.pre.alt
       /\ ev.pre.running
       /\ NoFurtherSection(ev.pre)
       /\ entered_text = IF ev.word # E THEN ev.pre.title \o Separator \o ev.word
                                       ELSE ev.pre.title

----------------------------------------------------------------------------
(* C14 *)

\* the cell of row r, column c (0-based) of the table as read, a missing cell
\* being an absent option
CellAt(r, c) == IF c < Len(og_data[r + 1]) THEN og_data[r + 1][c + 1] ELSE E

\* the options that exist in column c
OptionsOf(c) == NonEmpty([r \in 1..(Len(og_data) - 1) |-> CellAt(r, c)])

\* the last click ran to its end: it opened the subsection of the option
\* clicked, or put the option in the text box and, alt mode on, submitted it
ClickCompleted ==
  \/ shown.kind = "sub" /\ colstr1 = ev.word \o ValuesSuffix
  \/ IF ev.pre.alt
     THEN entered_text = ev.pre.title \o connector \o ev.word
     ELSE textbox = ev.word /\ entered_text = ev.pre.title

\* C14: V, a table whose rows differ in length, first column headed: a
\* top-level section displayed is a headed column of the header row with the
\* options that exist in it; when the session has ended every headed column of
\* the header row has been presented, in order; and every click runs to its
\* end (no handler is aborted by an error).
C14_RaggedTolerated ==
  (variant = "V" /\ NCols > 0 /\ Headed(0)) =>
    /\ shown.kind = "top" =>
         Headed(shown.col) /\ buttons = OptionsOf(shown.col)
    /\ ~running => seen = HeadedCols
    /\ ev.op = "click" => ClickCompleted

----------------------------------------------------------------------------
(* C15 *)

\* the cells of a line of the file once its trailing delimiters and its line
\* end are removed, and nothing else
CellsOfRow(line) == Split(RStrip(line, StripChars), ",")

\* C15: H: while a line is displayed, the label is the first comma-separated
\* cell of that line and the buttons are all its remaining cells, in order and
\* verbatim, empty cells included; only trailing delimiters and the line end
\* are removed, so a line whose first cell is empty has an empty label.
C15_LabelIsFirstCell ==
  (variant = "H" /\ running /\ shown.kind = "top") =>
    LET cells == CellsOfRow(lines[shown.col + 1])
    IN /\ colstr1 = cells[1]
       /\ buttons = Tail(cells)

----------------------------------------------------------------------------
(* C16 *)

\* C16: V, rectangular table: a click that opens a subsection consumes no
\* top-level section (the sections presented and the title stay as they were,
\* the subsection belongs to the section displayed); a click on a child never
\* opens a further subsection; once a child is submitted (by the click, alt
\* mode on, or by Enter) the section presented next is the first headed column
\* right of the parent section, or the session ends when there is none, which
\* is what follows the submission of an option of the parent section that has
\* no children.
C16_SubsectionKeepsSection ==
  variant = "V" =>
    /\ (ev.op = "click" /\ ev.pre.shown.kind = "top" /\ shown.kind = "sub") =>
         /\ running
         /\ seen = ev.pre.seen
         /\ shown.col = ev.pre.shown.col
         /\ entered_text = ev.pre.title
    /\ (ev.op = "click" /\ ev.pre.shown.kind = "sub") =>
         /\ shown.kind # "sub" \/ shown = ev.pre.shown
         /\ IF ev.pre.alt
            THEN Advanced(NextHeaded(ev.pre.shown.col), NCols)
            ELSE /\ shown = ev.pre.shown /\ buttons = ev.pre.buttons
                 /\ textbox = ev.word /\ seen = ev.pre.seen
    /\ (ev.op = "submit" /\ ev.pre.shown.kind = "sub") =>
         Advanced(NextHeaded(ev.pre.shown.col), NCols)
    /\ (ev.op = "click" /\ ev.pre.shown.kind = "top" /\ shown.kind # "sub"
          /\ ev.pre.alt) =>
         Advanced(NextHeaded(ev.pre.shown.col), NCols)

\* a child of the first section, which is followed by an empty-header column,
\* was chosen by a click, and the third column is presented
C16_Witness ==
  /\ variant = "V" /\ NCols = 3
  /\ Headed(0) /\ ~Headed(1) /\ Headed(2)
  /\ ev.op = "click" /\ ev.pre.alt
  /\ ev.pre.shown = Sub(0, 1)
  /\ shown = Top(2)
  /\ accepted = <<og_data[2][2]>>

----------------------------------------------------------------------------
(* C17 *)

\* C17: V, rectangular table, distinct options: while a headed section is
\* displayed, a click on an option whose row has children opens the subsection
\* of that option, whatever was clicked before in the section: the children
\* become the buttons, under the label "<token> values", and the option itself
\* is neither put in the text box nor appended to the title.
C17_ExpandsAfterEarlierClicks ==
  (/\ variant = "V" /\ ev.op = "click"
   /\ ev.pre.shown.kind = "top" /\ Headed(ev.pre.shown.col)
   /\ DistinctOptions(ev.pre.shown.col)
   /\ Children(RowOfButton(ev.pre.shown.col, ev.idx), ev.pre.shown.col) # <<>>) =>
    LET c == ev.pre.shown.col
        r == RowOfButton(c, ev.idx)
    IN /\ shown = Sub(c, r)
       /\ buttons = Children(r, c)
       /\ colstr1 = ev.word \o ValuesSuffix
       /\ textbox = E
       /\ entered_text = ev.pre.title

----------------------------------------------------------------------------
(* C18 *)

\* C18: V, rectangular table, options that may repeat: the first click on a
\* button of a headed section opens the sub-options of the table row the
\* button's cell sits in: the children of that row when it has any (also when
\* an earlier row holds the same text), and no subsection when it has none.
C18_SubsectionOfClickedRow ==
  (/\ variant = "V" /\ ev.op = "click"
   /\ ev.pre.shown.kind = "top" /\ Headed(ev.pre.shown.col)
   /\ ~ev.pre.clicked) =>
    LET c == ev.pre.shown.col
        r == RowOfButton(c, ev.idx)
    IN /\ ev.word = og_data[r + 1][c + 1]
       /\ IF Children(r, c) # <<>>
          THEN shown = Sub(c, r) /\ buttons = Children(r, c)
          ELSE shown.kind # "sub"

----------------------------------------------------------------------------
(* C19 *)

\* C19: H: a Submit whose save cannot write the file leaves the rows in
\* memory, the save flag and the cursor as they were before it; and a save
\* that succeeds, also after failed attempts, leaves in the current row of the
\* file what was there followed by the word, once.
C19_FailedSaveLeavesRows ==
  /\ (variant = "H" /\ ev.op \in {"submit", "click"} /\ ev.pre.save
        /\ ev.pre.locked) =>
       /\ lines = ev.pre.lines
       /\ saveFlag
       /\ current_row_index = ev.pre.cri
  /\ Saved =>
       file[ev.pre.cri + 1] =
         Strip(ev.pre.file[ev.pre.cri + 1], StripChars) \o <<",">> \o ev.word \o <<"\n">>

====
